---- MODULE Spec2Model ----
(***************************************************************************)
(* Model of dockerpc (src/dockerpc.go): the Client facade (NewClient,      *)
(* Start, Close, Call, StdError), the attach handshake                     *)
(* (AttachStreamingContainer) and the stream demultiplexer                 *)
(* (dockerPipes.Read) that the RPC client's reader drives.                 *)
(*                                                                         *)
(* A byte on the connection is a record [v, k, f, i]: v is the value the   *)
(* code sees; k, f and i are history labels the code never reads (which    *)
(* kind of byte the peer meant it as: "h" header, "i"/"o"/"e"/"x" payload  *)
(* of an input/output/error/unknown-tagged frame, of which frame, at which *)
(* offset).  The claims compare what the code did with these labels.       *)
(***************************************************************************)
EXTENDS Integers, Sequences, FiniteSets, TLC

\* ---- bounds of the model ------------------------------------------------
MaxStarts == 2
MaxFrames == 1
MaxPayload == 3
MaxBuf == 2
MaxCalls == 2

\* ---- program constants ---------------------------------------------------
STDIN == 0
STDOUT == 1
STDERR == 2
HeaderLen == 8
HeaderBufLen == 1024
\* The byte that ends a response of the JSON codec (a newline).
RespEnd == 10

\* The value of the other payload bytes: it reads as the output tag when the
\* code takes a payload byte for the first byte of a header.
PayloadVal == STDOUT
\* Channel tags a peer may put in a header; 3 is not a tag of the protocol.
Tags == {STDIN, STDOUT, STDERR, 3}
BufSizes == 1..MaxBuf

VARIABLES
  ID,             \* Client.ID: container id, 0 is ""
  dockerClient,   \* Client.dockerClient: "nil", "plain" or "tls"
  rpcClient,      \* Client.rpcClient: 0 is nil, else the connection its codec wraps
  clientConn,     \* Client.clientConn: 0 is nil, else the hijacked connection
  stdErrBuf,      \* Client.stdErrBuf
  bytesRemaining, \* dockerPipes.bytesRemaining
  pipeName,       \* dockerPipes.pipeName
  containers,     \* runtime: containers that exist
  nextId,         \* runtime: next container id / connection id to hand out
  open,           \* transport connections that are open
  wire,           \* bytes the peer has sent on clientConn and no raw read has returned
  peerClosed,     \* the peer has closed its end of clientConn
  readPc,         \* the RPC reader: "none", "idle", "payload" (inside Read),
                  \* "write" (inside Read, inside stdErrBuf.Write), "dead"
  bufLen,         \* len(b) of the Read the reader is inside
  callPc,         \* the caller's thread: "idle", "reset" (inside Call, inside
                  \* stdErrBuf.Reset), "inflight" (inside Call, inside rpcClient.Call),
                  \* "stderr" (inside StdError, inside stdErrBuf.Bytes)
  replyReady,     \* the reader has decoded a response for the Call in flight
  lastOp,         \* the last Start/Close: its name, collaborator calls and return value
  prevOp,         \* the Start/Close before it
  rd,             \* the last Read that returned
  stdErrRet,      \* what the last StdError() returned
  delivered,      \* history: bytes Read has returned to the codec on clientConn
  errSeen,        \* history: error-labelled bytes raw reads returned since Call's reset
  nStarts,        \* history: Start calls so far
  cur,            \* history: the header the pipes last accepted and what followed it
  sent,           \* history: the frames the peer has sent on clientConn
  requests,       \* the requests written on clientConn by the RPC client, in order
  answered,       \* peer: how many of them it has answered
  call,           \* the latest Call: its request, its outcome and what came before it
  reply           \* the caller's result variable (the reply argument of Call)

vars == <<ID, dockerClient, rpcClient, clientConn, stdErrBuf, bytesRemaining, pipeName,
          containers, nextId, open, wire, peerClosed, readPc, bufLen, callPc, replyReady,
          lastOp, prevOp, rd, stdErrRet, delivered, errSeen, nStarts, cur, sent,
          requests, answered, call, reply>>

clientVars == <<ID, dockerClient, rpcClient, clientConn>>
runtimeVars == <<containers, nextId, open>>
pipeVars == <<bytesRemaining, pipeName>>
opVars == <<lastOp, prevOp>>
rpcVars == <<requests, answered, call, reply>>

Min(a, b) == IF a < b THEN a ELSE b

\* A Start or Close that returned: ret is what it returned and calls the calls
\* it made to the collaborators, in order.  History: ans is what the
\* collaborators answered (for Start the first step that failed, for Close
\* and the runtime's answer to the upgrade request if one was sent, for Close
\* whether the removal was carried out and the error of closing the handle);
\* had is the RPC handle at entry.
NoAns == [fail |-> "none", resp |-> "none", rm |-> FALSE, ce |-> "nil"]
NoOp == [op |-> "none", ret |-> "nil", calls |-> <<>>, had |-> 0, ans |-> NoAns]
\* A Read that returned: n and err are what it returned; phase is the raw read
\* that decided it ("header" or "payload") and c the bytes that raw read
\* returned; buf is len(b); pre is <<pipeName, bytesRemaining>> at entry, rem0
\* is bytesRemaining before the payload raw read, taken the bytes the deciding
\* raw read returned.
NoRead == [n |-> 0, err |-> "none", phase |-> "none", c |-> 0, buf |-> 0,
           pre |-> <<0, 0>>, rem0 |-> 0, taken |-> <<>>]
\* The header last accepted: the bytes taken for it, the size and tag parsed
\* from them, len(b) of the Reads that followed it and the bytes their raw
\* reads returned.
NoCur == [hdr |-> <<>>, declared |-> 0, tag |-> 0, bufs |-> {}, got |-> <<>>]
\* The caller's result variable before any Call has stored into it.
NoReply == ""
\* A request: the method and the argument of a Call.
NoReq == [method |-> "", arg |-> ""]
\* A Call: k is the sequence number of its request (0: none was written), err
\* its outcome ("pending" while in flight, then "nil", "remote" for an error
\* the peer reported, "transport" for a failure of the reader).  History: pre
\* is <<ID, rpcClient, clientConn, reply>> when it began and prevErr the
\* outcome of the Call before it.
NoCall == [k |-> 0, req |-> NoReq, err |-> "none", pre |-> <<0, 0, 0, NoReply>>,
           prevErr |-> "none"]

\* NewClient: no network activity, every handle absent.
Init ==
  /\ ID = 0 /\ dockerClient = "nil" /\ rpcClient = 0 /\ clientConn = 0
  /\ stdErrBuf = <<>> /\ bytesRemaining = 0 /\ pipeName = 0
  /\ containers = {} /\ nextId = 1 /\ open = {}
  /\ wire = <<>> /\ peerClosed = FALSE
  /\ readPc = "none" /\ bufLen = 0 /\ callPc = "idle" /\ replyReady = FALSE
  /\ lastOp = NoOp /\ prevOp = NoOp /\ rd = NoRead /\ stdErrRet = <<>>
  /\ delivered = <<>> /\ errSeen = <<>> /\ nStarts = 0 /\ sent = <<>> /\ cur = NoCur
  /\ requests = <<>> /\ answered = 0 /\ call = NoCall /\ reply = NoReply

\* ---- external collaborators ---------------------------------------------

\* One call made to a collaborator: which, for which container or connection,
\* and with which options.
CallRec(c, id, arg) == [c |-> c, id |-> id, arg |-> arg]

\* What the collaborators answer during one Start: TRUE is success; do is the
\* outcome of the upgrade request: "err" (clientconn.Do returns an error), or
\* the status of the response it returns without error.
StartOutcomes ==
  [tls : BOOLEAN, nc : BOOLEAN, cr : BOOLEAN, st : BOOLEAN,
   parse : BOOLEAN, dial : BOOLEAN, do : {"err", "101", "404"}]

\* History: the first step of a Start that reports an error to it, given the
\* collaborators' answers ("none": no step does).
FirstFailure(out) ==
  IF ~out.nc THEN "newclient"
  ELSE IF ~out.cr THEN "create"
  ELSE IF ~out.st THEN "start"
  ELSE IF ~out.parse THEN "parse"
  ELSE IF ~out.dial THEN "dial"
  ELSE IF out.do = "err" THEN "upgrade"
  ELSE "none"

\* History: the runtime's answer to the upgrade request of a Start: the status
\* of its response, "err" when no response came, "none" when no request was sent.
UpgradeAnswer(out) ==
  IF FirstFailure(out) \in {"upgrade", "none"} THEN out.do ELSE "none"

\* docker.Client.RemoveContainer: fails when the container does not exist or
\* the runtime refuses (ok = FALSE); otherwise the container is gone.
RemoveContainer(id, ok) ==
  IF id \in containers /\ ok
    THEN [err |-> "nil", gone |-> {id}]
    ELSE [err |-> "err_remove", gone |-> {}]

\* rpc.Client.Close on handle h: closes the codec, which closes the pipes'
\* connection; ce is the error conn.Close reports.  A nil handle panics.
RpcClose(h, ce) ==
  IF h = 0
    THEN [ret |-> "panic", closed |-> {}]
    ELSE [ret |-> ce, closed |-> {h}]

\* ---- Client.AttachStreamingContainer ------------------------------------
\* (A variant that drops the error of clientconn.Do.)
AttachIgnoringUpgradeError(id, out, cid) ==
  LET dialCall == CallRec("dial", cid, IF out.tls THEN "tls" ELSE "tcp")
      upCall == CallRec("upgrade", id, "stdin,stdout,stderr,stream")
  IN IF ~out.parse
       THEN [err |-> "err_parse", dialled |-> 0, hijacked |-> 0, calls |-> <<>>]
     ELSE IF ~out.dial
       THEN [err |-> "err_dial", dialled |-> 0, hijacked |-> 0,
             calls |-> <<dialCall>>]
     ELSE [err |-> "nil", dialled |-> cid, hijacked |-> cid,
           calls |-> <<dialCall, upCall>>]

\* The result of the attach for container id when the next connection is cid:
\* err, the connection dialled (0: none), the connection hijacked into
\* clientConn (0: clientConn is left alone) and the calls made.  clientconn.Do
\* returns an error when no response could be read; a response of any status
\* is returned without error, and the code does not look at it.
AttachStreamingContainer(id, out, cid) ==
  LET dialCall == CallRec("dial", cid, IF out.tls THEN "tls" ELSE "tcp")
      upCall == CallRec("upgrade", id, "stdin,stdout,stderr,stream")
  IN IF ~out.parse
       THEN [err |-> "err_parse", dialled |-> 0, hijacked |-> 0, calls |-> <<>>]
     ELSE IF ~out.dial
       THEN [err |-> "err_dial", dialled |-> 0, hijacked |-> 0,
             calls |-> <<dialCall>>]
     ELSE IF out.do = "err"
       THEN [err |-> "err_upgrade", dialled |-> cid, hijacked |-> 0,
             calls |-> <<dialCall, upCall>>]
     ELSE [err |-> "nil", dialled |-> cid, hijacked |-> cid,
           calls |-> <<dialCall, upCall>>]

\* ---- Client.Start --------------------------------------------------------
\* The effect of one Start given the collaborators' answers: the Client's
\* fields after it, the container created, the connection dialled, the calls
\* made in order and the value returned.
\* (StartResultStartingStaleId: a variant that starts the container d.ID named
\* before this Start.)
StartResultStartingStaleId(out) ==
  LET dc == IF out.nc THEN (IF out.tls THEN "tls" ELSE "plain") ELSE "nil"
      ncCall == CallRec("newclient", 0, IF out.tls THEN "tls" ELSE "plain")
      crCall == CallRec("create", 0, "image,name")
      stCall == CallRec("start", ID, "hostconfig")
      at == AttachStreamingContainer(nextId, out, nextId)
      base == [dockerClient |-> dc, ID |-> ID, clientConn |-> clientConn,
               rpcClient |-> rpcClient, created |-> {}, dialled |-> 0,
               installed |-> FALSE]
  IN IF ~out.nc
       THEN [base EXCEPT !.dockerClient = "nil"]
              @@ [ret |-> "err_newclient", calls |-> <<ncCall>>]
     ELSE IF ~out.cr
       THEN base @@ [ret |-> "err_create", calls |-> <<ncCall, crCall>>]
     ELSE IF ~out.st
       THEN [base EXCEPT !.ID = nextId, !.created = {nextId}]
              @@ [ret |-> "err_start", calls |-> <<ncCall, crCall, stCall>>]
     ELSE IF at.err # "nil"
       THEN [base EXCEPT !.ID = nextId, !.created = {nextId}, !.dialled = at.dialled]
              @@ [ret |-> at.err, calls |-> <<ncCall, crCall, stCall>> \o at.calls]
     ELSE [base EXCEPT !.ID = nextId, !.created = {nextId}, !.dialled = at.dialled,
                       !.clientConn = at.hijacked, !.rpcClient = at.hijacked,
                       !.installed = TRUE]
            @@ [ret |-> "nil",
                calls |-> <<ncCall, crCall, stCall>> \o at.calls
                            \o <<CallRec("install", at.hijacked, "pipes,jsonrpc")>>]
StartResult(out) ==
  LET dc == IF out.nc THEN (IF out.tls THEN "tls" ELSE "plain") ELSE "nil"
      ncCall == CallRec("newclient", 0, IF out.tls THEN "tls" ELSE "plain")
      crCall == CallRec("create", 0, "image,name")
      stCall == CallRec("start", nextId, "hostconfig")
      at == AttachStreamingContainer(nextId, out, nextId)
      base == [dockerClient |-> dc, ID |-> ID, clientConn |-> clientConn,
               rpcClient |-> rpcClient, created |-> {}, dialled |-> 0,
               installed |-> FALSE]
  IN IF ~out.nc
       THEN [base EXCEPT !.dockerClient = "nil"]
              @@ [ret |-> "err_newclient", calls |-> <<ncCall>>]
     ELSE IF ~out.cr
       THEN base @@ [ret |-> "err_create", calls |-> <<ncCall, crCall>>]
     ELSE IF ~out.st
       THEN [base EXCEPT !.ID = nextId, !.created = {nextId}]
              @@ [ret |-> "err_start", calls |-> <<ncCall, crCall, stCall>>]
     ELSE IF at.err # "nil"
       THEN [base EXCEPT !.ID = nextId, !.created = {nextId}, !.dialled = at.dialled]
              @@ [ret |-> at.err, calls |-> <<ncCall, crCall, stCall>> \o at.calls]
     ELSE [base EXCEPT !.ID = nextId, !.created = {nextId}, !.dialled = at.dialled,
                       !.clientConn = at.hijacked, !.rpcClient = at.hijacked,
                       !.installed = TRUE]
            @@ [ret |-> "nil",
                calls |-> <<ncCall, crCall, stCall>> \o at.calls
                            \o <<CallRec("install", at.hijacked, "pipes,jsonrpc")>>]

\* Start is issued by the caller's thread on a Client that holds no RPC handle
\* (Inert); on success the pipes start from {conn, &stdErrBuf, 0, 0} and the
\* RPC client's reader starts reading them.
Start(out) ==
  /\ callPc = "idle" /\ rpcClient = 0 /\ nStarts < MaxStarts
  /\ LET r == StartResult(out)
     IN /\ dockerClient' = r.dockerClient
        /\ ID' = r.ID
        /\ clientConn' = r.clientConn
        /\ rpcClient' = r.rpcClient
        /\ containers' = containers \cup r.created
        /\ open' = IF r.dialled = 0 THEN open ELSE open \cup {r.dialled}
        /\ nextId' = IF r.created = {} THEN nextId ELSE nextId + 1
        /\ prevOp' = lastOp
        /\ lastOp' = [op |-> "Start", ret |-> r.ret, calls |-> r.calls,
                      had |-> rpcClient,
                      ans |-> [NoAns EXCEPT !.fail = FirstFailure(out),
                                            !.resp = UpgradeAnswer(out)]]
        /\ IF r.installed
             THEN /\ bytesRemaining' = 0 /\ pipeName' = 0
                  /\ wire' = <<>> /\ peerClosed' = FALSE
                  /\ readPc' = "idle" /\ bufLen' = 0 /\ replyReady' = FALSE
                  /\ rd' = NoRead /\ delivered' = <<>> /\ sent' = <<>> /\ cur' = NoCur
                  /\ requests' = <<>> /\ answered' = 0
             ELSE UNCHANGED <<bytesRemaining, pipeName, wire, peerClosed, readPc,
                              bufLen, replyReady, rd, delivered, cur, sent,
                              requests, answered>>
  /\ nStarts' = nStarts + 1
  /\ UNCHANGED <<stdErrBuf, callPc, stdErrRet, errSeen, call, reply>>

\* ---- Client.Close --------------------------------------------------------

\* An "if d.rpcClient != nil" block of Close on handle h: the error of
\* rpcClient.Close(), the connection it closed and the call made.
\* (CloseRpcAlways: a variant without the nil test.)
CloseRpcAlways(h, ce) ==
  RpcClose(h, ce) @@ [calls |-> <<CallRec("rpcclose", h, "")>>]
CloseRpcIfSet(h, ce) ==
  IF h # 0
    THEN RpcClose(h, ce) @@ [calls |-> <<CallRec("rpcclose", h, "")>>]
    ELSE [ret |-> "nil", closed |-> {}, calls |-> <<>>]

\* The "if d.dockerClient != nil" block of Close: the forced removal of
\* container d.ID, whose error is dropped.
RemoveIfClient(rm) ==
  IF dockerClient # "nil"
    THEN [gone |-> RemoveContainer(ID, rm).gone,
          err |-> RemoveContainer(ID, rm).err,
          calls |-> <<CallRec("remove", ID, "force")>>]
    ELSE [gone |-> {}, err |-> "nil", calls |-> <<>>]

\* The effect of one Close: rm says whether the runtime carries out a removal
\* it is asked for, ce is what closing the connection reports.
\* (CloseResultSurfacingRemoval: a variant that returns a removal error at once.)
CloseResultSurfacingRemoval(rm, ce) ==
  LET removal == RemoveIfClient(rm)
      c1 == CloseRpcIfSet(rpcClient, ce)
  IN IF removal.err # "nil"
       THEN [ret |-> removal.err, rpcClient |-> rpcClient, gone |-> removal.gone,
             closed |-> {}, calls |-> removal.calls]
       ELSE [ret |-> c1.ret, rpcClient |-> 0, gone |-> removal.gone,
             closed |-> c1.closed, calls |-> removal.calls \o c1.calls]
\* (CloseResultClosingTwice: a variant whose first block leaves d.rpcClient set.)
CloseResultClosingTwice(rm, ce) ==
  LET removal == RemoveIfClient(rm)
      c1 == CloseRpcIfSet(rpcClient, ce)
      c2 == IF c1.ret = "nil" THEN CloseRpcIfSet(rpcClient, ce)
                              ELSE [ret |-> "nil", closed |-> {}, calls |-> <<>>]
  IN [ret |-> IF c1.ret # "nil" THEN c1.ret ELSE c2.ret,
      rpcClient |-> IF c1.ret = "nil" THEN 0 ELSE rpcClient,
      gone |-> removal.gone,
      closed |-> c1.closed \cup c2.closed,
      calls |-> removal.calls \o c1.calls \o c2.calls]
CloseResult(rm, ce) ==
  LET removal == RemoveIfClient(rm)
      \* first "if d.rpcClient != nil" block
      c1 == CloseRpcIfSet(rpcClient, ce)
      rpc1 == IF rpcClient # 0 THEN 0 ELSE rpcClient
      \* second "if d.rpcClient != nil" block, reached when the first did not return
      c2 == IF c1.ret = "nil" THEN CloseRpcIfSet(rpc1, ce)
                              ELSE [ret |-> "nil", closed |-> {}, calls |-> <<>>]
      rpc2 == IF c1.ret = "nil" /\ rpc1 # 0 THEN 0 ELSE rpc1
  IN [ret |-> IF c1.ret # "nil" THEN c1.ret ELSE c2.ret,
      rpcClient |-> rpc2,
      gone |-> removal.gone,
      closed |-> c1.closed \cup c2.closed,
      calls |-> removal.calls \o c1.calls \o c2.calls]

Close(rm, ce) ==
  /\ callPc = "idle"
  /\ LET r == CloseResult(rm, ce)
     IN /\ rpcClient' = r.rpcClient
        /\ containers' = containers \ r.gone
        /\ open' = open \ r.closed
        /\ prevOp' = lastOp
        /\ lastOp' = [op |-> "Close", ret |-> r.ret, calls |-> r.calls,
                      had |-> rpcClient,
                      ans |-> [NoAns EXCEPT !.rm = rm, !.ce = ce]]
  /\ UNCHANGED <<ID, dockerClient, clientConn, stdErrBuf, pipeVars, nextId, wire,
                 peerClosed, readPc, bufLen, callPc, replyReady, rd, stdErrRet,
                 delivered, errSeen, nStarts, cur, sent, rpcVars>>

\* ---- the RPC client and its peer -------------------------------------------

Requests == [method : {"Plugin.SayHi", "Plugin.SayHi2"}, arg : {"jen", "bob"}]
SayHiJen == [method |-> "Plugin.SayHi", arg |-> "jen"]

\* The plugin in the container: SayHi greets, any other method is unknown.
\* Its response carries the sequence number of the request it answers.
Greeting(arg) == CASE arg = "jen" -> "Hi jen" [] arg = "bob" -> "Hi bob"
Response(req, k) ==
  IF req.method = "Plugin.SayHi"
    THEN [id |-> k, err |-> "nil", val |-> Greeting(req.arg)]
    ELSE [id |-> k, err |-> "remote", val |-> NoReply]

\* The text of a response on the connection: the digit of its id, one
\* character for its body ('j', 'b', or '?' for an error) and the newline that
\* ends it.
Encode(resp) ==
  <<48 + resp.id,
    CASE resp.err # "nil" -> 63 [] resp.val = "Hi jen" -> 106 [] resp.val = "Hi bob" -> 98,
    RespEnd>>
\* What the codec makes of the text of one response; ok is FALSE when the
\* text is not a response.
Decode(text) ==
  IF Len(text) = 3 /\ text[1] \in 49..57 /\ text[2] \in {63, 106, 98} /\ text[3] = RespEnd
    THEN [ok |-> TRUE, id |-> text[1] - 48,
          err |-> IF text[2] = 63 THEN "remote" ELSE "nil",
          val |-> CASE text[2] = 106 -> "Hi jen" [] text[2] = 98 -> "Hi bob"
                    [] OTHER -> NoReply]
    ELSE [ok |-> FALSE, id |-> 0, err |-> "nil", val |-> NoReply]

\* The bytes the codec has been given and has not yet decoded: those after
\* the last end of a response.
RECURSIVE Undecoded(_)
Undecoded(text) ==
  IF text = <<>> \/ text[Len(text)] = RespEnd THEN <<>>
  ELSE Append(Undecoded(SubSeq(text, 1, Len(text) - 1)), text[Len(text)])

\* The RPC client's reader is given the bytes text by Read.  st is its state:
\* buf the undecoded bytes, call the latest Call, reply the caller's result
\* variable, done whether the Call in flight got its response, dead whether
\* the reader has stopped.  At each end of a response the reader decodes it: a
\* text that is no response stops the reader; a response to the Call in flight
\* gives the Call its outcome and, when it is no error, stores the result into
\* reply; a response to no Call in flight is dropped.
RECURSIVE Feed(_, _)
Feed(text, st) ==
  IF text = <<>> \/ st.dead THEN st
  ELSE LET buf == Append(st.buf, text[1])
           r == Decode(buf)
       IN IF text[1] # RespEnd THEN Feed(Tail(text), [st EXCEPT !.buf = buf])
          ELSE IF ~r.ok THEN [st EXCEPT !.buf = <<>>, !.dead = TRUE]
          ELSE IF st.call.err = "pending" /\ r.id = st.call.k
            THEN Feed(Tail(text),
                      [st EXCEPT !.buf = <<>>, !.done = TRUE, !.call.err = r.err,
                                 !.reply = IF r.err = "nil" THEN r.val ELSE @])
          ELSE Feed(Tail(text), [st EXCEPT !.buf = <<>>])

\* ---- the peer and the connection ----------------------------------------

\* Big-endian bytes 4..7 of a header declaring len payload bytes.
SizeBytes(len) ==
  <<(len \div 16777216) % 256, (len \div 65536) % 256, (len \div 256) % 256, len % 256>>

Kind(tag) == CASE tag = STDIN -> "i" [] tag = STDOUT -> "o" [] tag = STDERR -> "e"
               [] OTHER -> "x"

\* The bytes of frame number f: an 8-byte header (tag, three unused bytes, the
\* length) and payload bytes of values vals.
FrameBytes(tag, vals, f) ==
  LET hv == <<tag, 0, 0, 0>> \o SizeBytes(Len(vals))
  IN [j \in 1..HeaderLen |-> [v |-> hv[j], k |-> "h", f |-> f, i |-> j - 1]]
       \o [j \in 1..Len(vals) |-> [v |-> vals[j], k |-> Kind(tag), f |-> f, i |-> j - 1]]

\* The payload of len bytes a peer sends: the text of a response, ended by
\* RespEnd.
Payload(len) == [j \in 1..len |-> IF j = len THEN RespEnd ELSE PayloadVal]
Payloads == {Payload(len) : len \in 0..MaxPayload}
Frames == [tag : Tags, vals : Payloads]
FrameSeqs == UNION {[1..k -> Frames] : k \in 0..MaxFrames}

\* The bytes in flight once the peer has written the frames fs, numbered from
\* frame number f on.
RECURSIVE WireFrom(_, _)
WireFrom(fs, f) ==
  IF fs = <<>> THEN <<>>
  ELSE FrameBytes(fs[1].tag, fs[1].vals, f) \o WireFrom(Tail(fs), f + 1)
WireOf(fs) == WireFrom(fs, 1)

\* The peer writes one frame on the attached connection.
PeerSend(tag, vals) ==
  /\ readPc \in {"idle", "payload"} /\ clientConn \in open /\ ~peerClosed
  /\ Len(sent) < MaxFrames
  /\ wire' = wire \o FrameBytes(tag, vals, Len(sent) + 1)
  /\ sent' = Append(sent, [tag |-> tag, vals |-> vals])
  /\ UNCHANGED <<clientVars, stdErrBuf, pipeVars, runtimeVars, peerClosed, readPc,
                 bufLen, callPc, replyReady, opVars, rd, stdErrRet, delivered, errSeen,
                 nStarts, cur, rpcVars>>

\* The plugin answers the oldest request it has not answered: one output
\* frame that carries the response.
PeerAnswer ==
  /\ readPc \in {"idle", "payload"} /\ clientConn \in open /\ ~peerClosed
  /\ answered < Len(requests)
  /\ LET text == Encode(Response(requests[answered + 1], answered + 1))
     IN /\ wire' = wire \o FrameBytes(STDOUT, text, Len(sent) + 1)
        /\ sent' = Append(sent, [tag |-> STDOUT, vals |-> text])
  /\ answered' = answered + 1
  /\ UNCHANGED <<clientVars, stdErrBuf, pipeVars, runtimeVars, peerClosed, readPc,
                 bufLen, callPc, replyReady, opVars, rd, stdErrRet, delivered, errSeen,
                 nStarts, cur, requests, call, reply>>

\* The peer closes its end: raw reads fail once the bytes in flight are read.
PeerClose ==
  /\ readPc \in {"idle", "payload"} /\ clientConn \in open /\ ~peerClosed
  /\ peerClosed' = TRUE
  /\ UNCHANGED <<clientVars, stdErrBuf, pipeVars, runtimeVars, wire, readPc,
                 bufLen, callPc, replyReady, opVars, rd, stdErrRet, delivered, errSeen,
                 nStarts, cur, sent, rpcVars>>

\* conn.Read fails: the connection was closed on this side, or the peer closed
\* it and nothing is left to read.
ConnErr == clientConn \notin open \/ (wire = <<>> /\ peerClosed)
\* conn.Read(p) may return any c of 1..RawMax(len(p)) bytes; with nothing in
\* flight on an open connection it blocks.
RawMax(cap) == IF clientConn \in open THEN Min(cap, Len(wire)) ELSE 0

Take(c) == SubSeq(wire, 1, c)
Drop(c) == SubSeq(wire, c + 1, Len(wire))
OfKind(seq, k) == SelectSeq(seq, LAMBDA b : b.k = k)
Vals(seq) == [j \in 1..Len(seq) |-> seq[j].v]

\* ---- dockerPipes.Read ----------------------------------------------------

\* binary.Read(bytes.NewReader(p[4:]), binary.BigEndian, &size): four bytes,
\* so the value fits uint32 (the bytes of the model are below 128).
HeaderSize(p) ==
  p[5].v * 16777216 + p[6].v * 65536 + p[7].v * 256 + p[8].v

\* The "if pipe.bytesRemaining == 0" block once conn.Read(p) returned the c
\* bytes p without error: the error returned, or the new pipeName and
\* bytesRemaining.
\* (ParseHeaderTagFirst: a variant that stores the tag before it tests c.)
ParseHeaderTagFirst(p, c) ==
  IF c # HeaderLen
    THEN [err |-> "framing", pipeName |-> p[1].v, bytesRemaining |-> bytesRemaining]
    ELSE [err |-> "nil", pipeName |-> p[1].v, bytesRemaining |-> HeaderSize(p)]
ParseHeader(p, c) ==
  IF c # HeaderLen
    THEN [err |-> "framing", pipeName |-> pipeName, bytesRemaining |-> bytesRemaining]
    ELSE [err |-> "nil", pipeName |-> p[1].v, bytesRemaining |-> HeaderSize(p)]

\* bytesRemaining after a payload raw read into a buffer of bufSize bytes.
Remaining(bufSize, rem) == IF bufSize < rem THEN rem - bufSize ELSE 0

\* The switch on pipeName after a payload raw read returned c bytes:
\* (bytes returned to the caller, error, whether the bytes go to stdErrBuf).
Dispatch(name, c) ==
  CASE name = STDIN -> [n |-> 0, err |-> "nil", toErr |-> FALSE]
    [] name = STDOUT -> [n |-> c, err |-> "nil", toErr |-> FALSE]
    [] name = STDERR -> [n |-> 0, err |-> "nil", toErr |-> TRUE]
    [] OTHER -> [n |-> 0, err |-> "unsupported", toErr |-> FALSE]

\* The reader calls Read(b), len(b) = n, with no payload pending: the header
\* raw read.  An error ends the Read (and the reader's loop); an accepted
\* header leaves the Read before its payload raw read.
ReadHeader(n) ==
  /\ readPc = "idle" /\ bytesRemaining = 0
  /\ \/ /\ ConnErr
        /\ rd' = [NoRead EXCEPT !.err = "conn", !.phase = "header", !.buf = n,
                                !.pre = <<pipeName, bytesRemaining>>]
        /\ readPc' = "dead"
        /\ UNCHANGED <<pipeVars, wire, bufLen, cur, errSeen>>
     \/ /\ ~ConnErr
        /\ \E c \in 1..RawMax(HeaderBufLen) :
             LET p == Take(c)
                 h == ParseHeader(p, c)
             IN /\ wire' = Drop(c)
                /\ errSeen' = errSeen \o OfKind(p, "e")
                /\ pipeName' = h.pipeName
                /\ bytesRemaining' = h.bytesRemaining
                /\ IF h.err # "nil"
                     THEN /\ rd' = [NoRead EXCEPT !.err = h.err, !.phase = "header",
                                      !.c = c, !.buf = n, !.taken = p,
                                      !.pre = <<pipeName, bytesRemaining>>]
                          /\ readPc' = "dead"
                          /\ UNCHANGED <<bufLen, cur>>
                     ELSE /\ readPc' = "payload"
                          /\ bufLen' = n
                          /\ cur' = [hdr |-> p, declared |-> h.bytesRemaining,
                                     tag |-> h.pipeName, bufs |-> {}, got |-> <<>>]
                          /\ UNCHANGED rd
  /\ UNCHANGED <<clientVars, stdErrBuf, runtimeVars, peerClosed, callPc, replyReady,
                 opVars, stdErrRet, delivered, nStarts, sent, rpcVars>>

\* The payload raw read of a Read(b), len(b) = n: of the Read that has just
\* accepted a header, or of a new Read called with payload pending.
ReadPayload(n) ==
  /\ \/ readPc = "payload" /\ n = bufLen
     \/ readPc = "idle" /\ bytesRemaining # 0
     \/ readPc = "write" /\ (bufLen = 0 \/ n = bufLen)
  /\ \/ /\ ConnErr
        /\ rd' = [NoRead EXCEPT !.err = "conn", !.phase = "payload", !.buf = n,
                                !.pre = <<pipeName, bytesRemaining>>,
                                !.rem0 = bytesRemaining]
        /\ readPc' = "dead"
        /\ UNCHANGED <<pipeVars, wire, stdErrBuf, delivered, cur, errSeen, replyReady,
                       call, reply>>
     \/ /\ ~ConnErr
        /\ \E c \in 1..RawMax(n) :
             LET chunk == Take(c)
                 d == Dispatch(pipeName, c)
                 fed == Feed(Vals(SubSeq(chunk, 1, d.n)),
                             [buf |-> Undecoded(Vals(delivered)), call |-> call,
                              reply |-> reply, done |-> FALSE, dead |-> FALSE])
             IN /\ wire' = Drop(c)
                /\ errSeen' = errSeen \o OfKind(chunk, "e")
                /\ bytesRemaining' = Remaining(n, bytesRemaining)
                /\ stdErrBuf' = IF d.toErr THEN stdErrBuf \o chunk ELSE stdErrBuf
                /\ delivered' = delivered \o SubSeq(chunk, 1, d.n)
                /\ replyReady' = (replyReady \/ fed.done)
                /\ call' = fed.call
                /\ reply' = fed.reply
                /\ cur' = [cur EXCEPT !.got = @ \o chunk, !.bufs = @ \cup {n}]
                /\ rd' = [n |-> d.n, err |-> d.err, phase |-> "payload", c |-> c,
                          buf |-> n, pre |-> IF readPc = "payload" THEN <<0, 0>>
                                             ELSE <<pipeName, bytesRemaining>>,
                          rem0 |-> bytesRemaining, taken |-> chunk]
                /\ readPc' = IF d.err = "nil" /\ ~fed.dead THEN "idle" ELSE "dead"
        /\ UNCHANGED pipeName
  /\ bufLen' = 0
  /\ UNCHANGED <<clientVars, runtimeVars, peerClosed, callPc, opVars, stdErrRet,
                 nStarts, sent, requests, answered>>

\* The reader, in a Read whose payload raw read has bytes to return and whose
\* pipeName is STDERR, is inside pipe.stdErrBuf.Write(b[0:c]); ReadPayload is
\* the rest of that Read.  The code takes no lock around the Write.
WriteEnter ==
  /\ readPc = "payload" \/ (readPc = "idle" /\ bytesRemaining # 0)
  /\ pipeName = STDERR /\ ~ConnErr /\ RawMax(MaxBuf) >= 1
  /\ readPc' = "write"
  /\ UNCHANGED <<clientVars, stdErrBuf, pipeVars, runtimeVars, wire, peerClosed, bufLen,
                 callPc, replyReady, opVars, rd, stdErrRet, delivered, errSeen, nStarts,
                 cur, sent, rpcVars>>

\* ---- dockerPipes.Close ---------------------------------------------------

\* net.Conn.Close on connection h: an open connection is closed, and ce is the
\* error that reports (if any); closing a closed connection is an error.
ConnClose(h, ce) ==
  IF h \in open THEN [err |-> ce, closed |-> {h}]
                ELSE [err |-> "err_closed", closed |-> {}]

\* The holder of the pipes calls Close: the result of conn.Close() is returned.
PipeClose(ce) ==
  /\ readPc # "none" /\ callPc = "idle"
  /\ LET r == ConnClose(clientConn, ce)
     IN /\ open' = open \ r.closed
        /\ prevOp' = lastOp
        /\ lastOp' = [NoOp EXCEPT !.op = "pipes.Close", !.ret = r.err,
                                  !.calls = <<CallRec("connclose", clientConn, "")>>]
  /\ UNCHANGED <<clientVars, stdErrBuf, pipeVars, containers, nextId, wire, peerClosed,
                 readPc, bufLen, callPc, replyReady, rd, stdErrRet, delivered, errSeen,
                 nStarts, cur, sent, rpcVars>>

\* ---- Client.Call and Client.StdError --------------------------------------

\* The caller's thread has entered Call and is inside d.stdErrBuf.Reset();
\* CallBegin is the rest of the Call up to its wait.  The code takes no lock
\* around the Reset.
ResetEnter ==
  /\ callPc = "idle" /\ rpcClient # 0
  /\ Len(requests) < MaxCalls
  /\ callPc' = "reset"
  /\ UNCHANGED <<clientVars, stdErrBuf, pipeVars, runtimeVars, wire, peerClosed, readPc,
                 bufLen, replyReady, opVars, rd, stdErrRet, delivered, errSeen, nStarts,
                 cur, sent, rpcVars>>

\* Call: d.stdErrBuf.Reset(), then rpcClient.Call, which writes the request
\* (unless the reader has stopped: the RPC client is then shut down and the
\* Call fails at once) and waits for the reader to hand it the response or an
\* error.
CallBegin(req) ==
  /\ callPc \in {"idle", "reset"} /\ rpcClient # 0
  /\ Len(requests) < MaxCalls
  /\ stdErrBuf' = <<>>
  /\ errSeen' = <<>>
  /\ callPc' = "inflight"
  /\ replyReady' = FALSE
  /\ requests' = IF readPc = "dead" THEN requests ELSE Append(requests, req)
  /\ call' = [k |-> IF readPc = "dead" THEN 0 ELSE Len(requests) + 1,
              req |-> req, err |-> "pending",
              pre |-> <<ID, rpcClient, clientConn, reply>>, prevErr |-> call.err]
  /\ UNCHANGED <<clientVars, pipeVars, runtimeVars, wire, peerClosed, readPc, bufLen,
                 opVars, rd, stdErrRet, delivered, nStarts, cur, sent, answered, reply>>

\* rpcClient.Call returns: the reader decoded the response, or its Read failed.
CallReturn ==
  /\ callPc = "inflight"
  /\ replyReady \/ readPc = "dead"
  /\ callPc' = "idle"
  /\ replyReady' = FALSE
  /\ call' = IF replyReady THEN call ELSE [call EXCEPT !.err = "transport"]
  /\ UNCHANGED <<clientVars, stdErrBuf, pipeVars, runtimeVars, wire, peerClosed,
                 readPc, bufLen, opVars, rd, stdErrRet, delivered, errSeen, nStarts,
                 cur, sent, requests, answered, reply>>

\* The caller's thread has entered StdError and is inside
\* d.stdErrBuf.Bytes(); StdError is the rest of it.  The code takes no lock
\* around the Bytes.
StdErrorEnter ==
  /\ callPc = "idle"
  /\ callPc' = "stderr"
  /\ UNCHANGED <<clientVars, stdErrBuf, pipeVars, runtimeVars, wire, peerClosed, readPc,
                 bufLen, replyReady, opVars, rd, stdErrRet, delivered, errSeen, nStarts,
                 cur, sent, rpcVars>>

\* StdError: a copy of the buffer's bytes; the buffer is left as it is.
StdError ==
  /\ callPc \in {"idle", "stderr"}
  /\ stdErrRet' = stdErrBuf
  /\ callPc' = "idle"
  /\ UNCHANGED <<clientVars, stdErrBuf, pipeVars, runtimeVars, wire, peerClosed,
                 readPc, bufLen, replyReady, opVars, rd, delivered, errSeen,
                 nStarts, cur, sent, rpcVars>>

Next ==
  \/ \E out \in StartOutcomes : Start(out)
  \/ \E rm \in BOOLEAN, ce \in {"nil", "err_close"} : Close(rm, ce)
  \/ \E f \in Frames : PeerSend(f.tag, f.vals)
  \/ PeerAnswer
  \/ PeerClose
  \/ \E n \in BufSizes : ReadHeader(n)
  \/ \E n \in BufSizes : ReadPayload(n)
  \/ \E ce \in {"nil", "err_close"} : PipeClose(ce)
  \/ WriteEnter
  \/ ResetEnter
  \/ StdErrorEnter
  \/ \E req \in Requests : CallBegin(req)
  \/ CallReturn
  \/ StdError

Spec == Init /\ [][Next]_vars

\* ---- the parts of Spec, each small enough to explore in full --------------

\* The lifecycle against a peer that sends nothing: the reader's only event
\* is the failure of its header read once the connection is closed.
NextLifecycle ==
  \/ \E out \in StartOutcomes : Start(out)
  \/ \E rm \in BOOLEAN, ce \in {"nil", "err_close"} : Close(rm, ce)
  \/ PeerClose
  \/ \E n \in {MaxBuf} : ReadHeader(n)
  \/ \E req \in {SayHiJen} : CallBegin(req)
  \/ CallReturn
  \/ StdError

SpecLifecycle == Init /\ [][NextLifecycle]_vars

\* The demultiplexer at work.  The states after NewClient, a first Start in
\* which every step succeeded (container 1, connection 1, upgrade answered
\* 101) and the peer's writes: the frames fs are in flight, and the peer has
\* closed its end or not.  (A raw read may return any part of what is in
\* flight, so what the reader can see does not depend on when the peer wrote.)
InitDemux ==
  /\ ID = 1 /\ dockerClient = "plain" /\ rpcClient = 1 /\ clientConn = 1
  /\ stdErrBuf = <<>> /\ bytesRemaining = 0 /\ pipeName = 0
  /\ containers = {1} /\ nextId = 2 /\ open = {1}
  /\ \E fs \in FrameSeqs : sent = fs /\ wire = WireOf(fs)
  /\ peerClosed \in BOOLEAN
  /\ readPc = "idle" /\ bufLen = 0 /\ callPc = "idle" /\ replyReady = FALSE
  /\ lastOp = [op |-> "Start", ret |-> "nil", had |-> 0,
               ans |-> [NoAns EXCEPT !.resp = "101"],
               calls |-> <<CallRec("newclient", 0, "plain"),
                           CallRec("create", 0, "image,name"),
                           CallRec("start", 1, "hostconfig"),
                           CallRec("dial", 1, "tcp"),
                           CallRec("upgrade", 1, "stdin,stdout,stderr,stream"),
                           CallRec("install", 1, "pipes,jsonrpc")>>]
  /\ prevOp = NoOp /\ rd = NoRead /\ stdErrRet = <<>>
  /\ delivered = <<>> /\ errSeen = <<>> /\ nStarts = 1
  /\ cur = NoCur
  /\ requests = <<>> /\ answered = 0 /\ call = NoCall /\ reply = NoReply

\* The reader's Reads alone.
NextDemux ==
  \/ \E n \in BufSizes : ReadHeader(n)
  \/ \E n \in BufSizes : ReadPayload(n)

SpecDemux == InitDemux /\ [][NextDemux]_vars

\* The reader's Reads and the caller's Call and StdError.
NextCall ==
  \/ \E n \in BufSizes : ReadHeader(n)
  \/ \E n \in BufSizes : ReadPayload(n)
  \/ \E req \in {SayHiJen} : CallBegin(req)
  \/ CallReturn
  \/ StdError

SpecCall == InitDemux /\ [][NextCall]_vars

\* The reader's Reads and Closes of the pipes by their holder.
NextPipes ==
  \/ \E n \in BufSizes : ReadHeader(n)
  \/ \E n \in BufSizes : ReadPayload(n)
  \/ \E ce \in {"nil", "err_close"} : PipeClose(ce)

SpecPipes == InitDemux /\ [][NextPipes]_vars

\* The reader's thread and the caller's thread, with the steps at which each
\* is inside an operation of the error buffer.
NextThreads ==
  \/ \E n \in BufSizes : ReadHeader(n)
  \/ \E n \in BufSizes : ReadPayload(n)
  \/ WriteEnter
  \/ ResetEnter
  \/ \E req \in {SayHiJen} : CallBegin(req)
  \/ CallReturn
  \/ StdErrorEnter
  \/ StdError

SpecThreads == InitDemux /\ [][NextThreads]_vars

\* Calls against the plugin.  The states after NewClient and a first Start in
\* which every step succeeded; the plugin answers the requests, may write an
\* input- or error-tagged frame of its own first, and may close its end.
InitRpc == InitDemux /\ sent = <<>> /\ ~peerClosed

NextRpc ==
  \/ \E req \in Requests : CallBegin(req)
  \/ PeerAnswer
  \/ \E f \in {g \in Frames : g.tag \in {STDIN, STDERR}} : PeerSend(f.tag, f.vals)
  \/ PeerClose
  \/ \E n \in BufSizes : ReadHeader(n)
  \/ \E n \in BufSizes : ReadPayload(n)
  \/ CallReturn
  \/ StdError

SpecRpc == InitRpc /\ [][NextRpc]_vars

\* ---- claims about the lifecycle (checked under SpecLifecycle) --------------

Names(calls) == [j \in 1..Len(calls) |-> calls[j].c]
ErrOf(step) == CASE step = "newclient" -> "err_newclient" [] step = "create" -> "err_create"
                 [] step = "start" -> "err_start" [] step = "parse" -> "err_parse"
                 [] step = "dial" -> "err_dial" [] step = "upgrade" -> "err_upgrade"
                 [] OTHER -> "nil"
\* The collaborators called by a Start whose first failing step is step.
CallsUpTo(step) ==
  CASE step = "newclient" -> <<"newclient">>
    [] step = "create" -> <<"newclient", "create">>
    [] step = "start" -> <<"newclient", "create", "start">>
    [] step = "parse" -> <<"newclient", "create", "start">>
    [] step = "dial" -> <<"newclient", "create", "start", "dial">>
    [] step = "upgrade" -> <<"newclient", "create", "start", "dial", "upgrade">>
    [] OTHER -> <<"newclient", "create", "start", "dial", "upgrade", "install">>

\* C7: a Close that follows a Start that failed (at whichever step) returns
\* no error, makes no call on an RPC handle (there is none) and does not panic.
CloseAfterFailedStartReturnsNil ==
  (lastOp.op = "Close" /\ prevOp.op = "Start" /\ prevOp.ret # "nil")
    => /\ lastOp.ret = "nil"
       /\ lastOp.had = 0
       /\ "rpcclose" \notin {lastOp.calls[j].c : j \in 1..Len(lastOp.calls)}
       /\ rpcClient = 0

\* C7 witness: a Close returned nil after a Start whose upgrade request failed,
\* having asked for the removal of the container that Start created.
CloseAfterFailedAttachSeen ==
  /\ lastOp.op = "Close" /\ prevOp.op = "Start" /\ prevOp.ret = "err_upgrade"
  /\ lastOp.ret = "nil"
  /\ lastOp.calls = <<CallRec("remove", ID, "force")>>

\* C8: when a step of Start fails, Start returns that step's error, has called
\* the collaborators up to that step and none after it (so no removal either),
\* the Client holds no RPC handle and has no reader, and the container the
\* Start created, if it got that far, is the Client's ID and still exists.
FailedStartStopsAtFirstError ==
  (lastOp.op = "Start" /\ lastOp.ans.fail # "none")
    => /\ lastOp.ret = ErrOf(lastOp.ans.fail)
       /\ Names(lastOp.calls) = CallsUpTo(lastOp.ans.fail)
       /\ rpcClient = 0
       /\ lastOp.ans.fail \notin {"newclient", "create"}
            => /\ lastOp.calls[3] = CallRec("start", ID, "hostconfig")
               /\ ID \in containers

\* C8 witness: a Start failed at the dial, after it had created and started a
\* container that still exists.
FailedDialSeen ==
  /\ lastOp.op = "Start" /\ lastOp.ans.fail = "dial" /\ lastOp.ret = "err_dial"
  /\ ID \in containers /\ rpcClient = 0

\* C9: a Close of an Active Client asks for the forced removal of the
\* container, then closes the RPC handle (whatever the removal did), leaves
\* no handle, and returns what closing the handle returned.
CloseRemovesThenClosesHandle ==
  (lastOp.op = "Close" /\ lastOp.had # 0)
    => /\ lastOp.calls = <<CallRec("remove", ID, "force"),
                           CallRec("rpcclose", lastOp.had, "")>>
       /\ lastOp.had \notin open
       /\ rpcClient = 0
       /\ lastOp.ret = lastOp.ans.ce

\* C9 witness: a Close of an Active Client whose removal failed (the container
\* is still there) closed the handle and returned the handle's close error.
CloseWithFailedRemovalSeen ==
  /\ lastOp.op = "Close" /\ lastOp.had # 0 /\ ~lastOp.ans.rm /\ ID \in containers
  /\ lastOp.ans.ce = "err_close" /\ lastOp.ret = "err_close"
  /\ lastOp.had \notin open

\* C10: the attach step fails, so Start fails and installs no RPC handle, when
\* the endpoint does not parse, the dial fails, no upgrade response comes, or
\* the runtime answers the upgrade request with a non-success status; a
\* connection is hijacked only after a 101 answer.
AttachFailsUnlessUpgraded ==
  lastOp.op = "Start"
    => /\ (lastOp.ans.fail \in {"parse", "dial", "upgrade"} \/ lastOp.ans.resp = "404")
            => (lastOp.ret # "nil" /\ rpcClient = 0)
       /\ lastOp.ret = "nil" => lastOp.ans.resp = "101"


\* ---- claims about the demultiplexer (checked under SpecDemux) ---------------

IsPrefix(a, b) == Len(a) <= Len(b) /\ a = SubSeq(b, 1, Len(a))
\* Every frame the peer sent carries a tag of the protocol.
ValidFrames == \A j \in 1..Len(sent) : sent[j].tag \in {STDIN, STDOUT, STDERR}
\* The payload bytes the peer tagged as output, in the order sent.
OutputSent == OfKind(WireOf(sent), "o")
\* The reader is between two Reads and every byte sent has been read.
AllRead == wire = <<>> /\ readPc = "idle"

\* The last Read failed because the connection delivered a header in pieces:
\* its header read returned fewer than 8 bytes, the first bytes of a header.
SplitHeader ==
  /\ rd.err = "framing" /\ rd.phase = "header" /\ rd.c < HeaderLen
  /\ \A j \in 1..Len(rd.taken) : rd.taken[j].k = "h" /\ rd.taken[j].i = j - 1

\* C1: for a valid frame sequence, whatever the buffer sizes and however the
\* bytes arrive, what Read has returned is the output-tagged payload in order
\* (a prefix of it so far, all of it once everything is read), and no Read
\* fails on the framing (but for a header delivered in pieces, which C4 makes
\* a framing error).
OutputPathIsOutputPayload ==
  ValidFrames
    => /\ IsPrefix(delivered, OutputSent)
       /\ rd.err = "framing" => SplitHeader
       /\ rd.err # "unsupported"
       /\ AllRead => delivered = OutputSent

\* The header last accepted is the whole header of one frame.
TrueHeader ==
  /\ Len(cur.hdr) = HeaderLen
  /\ \A j \in 1..HeaderLen :
       cur.hdr[j].k = "h" /\ cur.hdr[j].i = j - 1 /\ cur.hdr[j].f = cur.hdr[1].f
\* The frame being read is an output frame whose declared payload is longer
\* than the caller's buffer, one size b for every Read of it.
BigOutputFrame ==
  /\ TrueHeader /\ cur.tag = STDOUT
  /\ \E b \in BufSizes : cur.bufs = {b} /\ b < cur.declared

\* C2: while an output frame longer than the caller's buffer is being read,
\* the Reads take payload bytes of that frame and nothing else, and between
\* two Reads bytesRemaining is zero exactly when the whole payload has been
\* taken (so no header is read before, and one is read after).
BigFrameContinuation ==
  BigOutputFrame
    => /\ \A j \in 1..Len(cur.got) :
            cur.got[j].k = "o" /\ cur.got[j].f = cur.hdr[1].f
       /\ readPc = "idle" => (bytesRemaining = 0 <=> Len(cur.got) = cur.declared)

\* C3: when a payload raw read returns fewer bytes than the buffer holds and
\* than the payload still declared, bytesRemaining drops by the bytes returned.
RemainingDropsByBytesRead ==
  (readPc = "idle" /\ rd.phase = "payload" /\ rd.err = "nil"
     /\ rd.c < rd.buf /\ rd.c < rd.rem0)
    => bytesRemaining = rd.rem0 - rd.c

\* C4: a header read that returns fewer than 8 bytes makes Read return no
\* bytes and a framing error, with pipeName and bytesRemaining as at entry.
ShortHeaderLeavesPipeState ==
  (rd.phase = "header" /\ rd.c \in 1..(HeaderLen - 1))
    => /\ rd.n = 0 /\ rd.err = "framing"
       /\ rd.pre[2] = 0
       /\ <<pipeName, bytesRemaining>> = rd.pre

\* C4 witness: a Read failed on a header read that returned the first 3 bytes
\* of the header of an output frame; the rest of the frame is still in flight.
ShortHeaderSeen ==
  /\ rd.phase = "header" /\ rd.c = 3 /\ rd.err = "framing"
  /\ Len(sent) = 1 /\ sent[1].tag = STDOUT
  /\ Len(wire) = HeaderLen - 3 + Len(sent[1].vals)

\* ---- the scenario of the error frame followed by an output frame -----------

\* "oops!" and "{}"
Oops == <<111, 111, 112, 115, 33>>
Braces == <<123, 125>>

\* After a successful Start, with [error, 5, "oops!"] and [output, 2, "{}"]
\* in flight.
InitScenario ==
  /\ ID = 1 /\ dockerClient = "plain" /\ rpcClient = 1 /\ clientConn = 1
  /\ stdErrBuf = <<>> /\ bytesRemaining = 0 /\ pipeName = 0
  /\ containers = {1} /\ nextId = 2 /\ open = {1}
  /\ sent = <<[tag |-> STDERR, vals |-> Oops], [tag |-> STDOUT, vals |-> Braces]>>
  /\ wire = WireOf(sent)
  /\ peerClosed = FALSE
  /\ readPc = "idle" /\ bufLen = 0 /\ callPc = "idle" /\ replyReady = FALSE
  /\ lastOp = [op |-> "Start", ret |-> "nil", had |-> 0,
               ans |-> [NoAns EXCEPT !.resp = "101"],
               calls |-> <<CallRec("newclient", 0, "plain"),
                           CallRec("create", 0, "image,name"),
                           CallRec("start", 1, "hostconfig"),
                           CallRec("dial", 1, "tcp"),
                           CallRec("upgrade", 1, "stdin,stdout,stderr,stream"),
                           CallRec("install", 1, "pipes,jsonrpc")>>]
  /\ prevOp = NoOp /\ rd = NoRead /\ stdErrRet = <<>>
  /\ delivered = <<>> /\ errSeen = <<>> /\ nStarts = 1
  /\ cur = NoCur
  /\ requests = <<>> /\ answered = 0 /\ call = NoCall /\ reply = NoReply

NextScenario ==
  \/ \E n \in BufSizes : ReadHeader(n)
  \/ \E n \in BufSizes : ReadPayload(n)
  \/ StdError

SpecScenario == InitScenario /\ [][NextScenario]_vars

\* C5: the error frame's payload goes to the error buffer, in order, by Reads
\* that return no bytes and no error, and never to the caller; the output
\* frame after it is delivered: no Read fails (but on a header delivered in
\* pieces), StdError() and the bytes returned are prefixes of "oops!" and
\* "{}", and are "oops!" and "{}" once everything is read.
ErrorFrameThenOutputFrame ==
  /\ rd.err \in {"none", "nil"} \/ SplitHeader
  /\ (rd.phase = "payload" /\ cur.tag = STDERR) => rd.n = 0
  /\ IsPrefix(Vals(stdErrBuf), Oops) /\ IsPrefix(Vals(stdErrRet), Oops)
  /\ IsPrefix(Vals(delivered), Braces)
  /\ \A j \in 1..Len(delivered) : delivered[j].k = "o"
  /\ AllRead => (Vals(stdErrBuf) = Oops /\ Vals(delivered) = Braces)

\* ---- claims about Call and StdError (checked under SpecCall) ----------------

\* C6: the error buffer holds the error-tagged payload bytes read off the
\* connection since the latest Call began, no more and no less; it is empty
\* when a Call begins; StdError() returns its bytes and leaves it as it was.
StdErrorIsErrorBytesSinceCall ==
  [][/\ stdErrBuf' = errSeen'
     /\ (callPc = "idle" /\ callPc' = "inflight") => stdErrBuf' = <<>>
     /\ stdErrRet' # stdErrRet => (stdErrRet' = stdErrBuf /\ stdErrBuf' = stdErrBuf)]_vars

\* ---- claims about Calls against the plugin (checked under SpecRpc) ----------

\* The latest Call has returned.
Returned == callPc = "idle" /\ call.err \notin {"none", "pending"}
\* The plugin has answered the latest Call's request, and every frame it has
\* written is the answer to a request.
AnsweredOnly == call.k > 0 /\ answered >= call.k /\ Len(sent) = answered

\* C11: a Call that returned an error has left the Client's container ID, RPC
\* handle and connection and the caller's result variable as they were when
\* it began; and a Call of an existing method that follows a Call the plugin
\* answered with an error succeeds and stores the plugin's result (but for a
\* header delivered in pieces).
ErrorCallLeavesClientUsable ==
  /\ (Returned /\ call.err # "nil") => <<ID, rpcClient, clientConn, reply>> = call.pre
  /\ (Returned /\ call.prevErr = "remote" /\ call.req.method = "Plugin.SayHi"
        /\ AnsweredOnly /\ ~SplitHeader)
       => (call.err = "nil" /\ reply = Greeting(call.req.arg))

\* C12: when the plugin answers each request with one output frame and writes
\* nothing else, each Call returns the outcome of the response to its own
\* request (the greeting of its own argument stored in the result variable),
\* the reader is given payload bytes of output frames only, and the error
\* buffer is empty when the Call has returned (but for a header delivered in
\* pieces).
SequentialCallsGetOwnResponses ==
  (Returned /\ AnsweredOnly /\ ~SplitHeader)
    => /\ call.err = Response(call.req, call.k).err
       /\ call.err = "nil" => reply = Response(call.req, call.k).val
       /\ \A j \in 1..Len(delivered) : delivered[j].k = "o"
       /\ stdErrBuf = <<>>

\* ---- claims about closing the pipes (checked under SpecPipes) ----------------

\* C13: Close of the pipes leaves the connection closed, and a Close that
\* follows a Close that returned no error returns no error either.
PipesCloseIdempotent ==
  lastOp.op = "pipes.Close"
    => /\ clientConn \notin open
       /\ (prevOp.op = "pipes.Close" /\ prevOp.ret = "nil") => lastOp.ret = "nil"

\* ---- a frame with no payload followed by an output frame -------------------

\* After a successful Start, with a frame of a valid tag that declares length
\* zero and an output frame after it in flight.
InitZeroFrame ==
  /\ ID = 1 /\ dockerClient = "plain" /\ rpcClient = 1 /\ clientConn = 1
  /\ stdErrBuf = <<>> /\ bytesRemaining = 0 /\ pipeName = 0
  /\ containers = {1} /\ nextId = 2 /\ open = {1}
  /\ \E tag \in {STDIN, STDOUT, STDERR}, len \in 1..MaxPayload :
       sent = <<[tag |-> tag, vals |-> <<>>], [tag |-> STDOUT, vals |-> Payload(len)]>>
  /\ wire = WireOf(sent)
  /\ peerClosed \in BOOLEAN
  /\ readPc = "idle" /\ bufLen = 0 /\ callPc = "idle" /\ replyReady = FALSE
  /\ lastOp = [op |-> "Start", ret |-> "nil", had |-> 0,
               ans |-> [NoAns EXCEPT !.resp = "101"],
               calls |-> <<CallRec("newclient", 0, "plain"),
                           CallRec("create", 0, "image,name"),
                           CallRec("start", 1, "hostconfig"),
                           CallRec("dial", 1, "tcp"),
                           CallRec("upgrade", 1, "stdin,stdout,stderr,stream"),
                           CallRec("install", 1, "pipes,jsonrpc")>>]
  /\ prevOp = NoOp /\ rd = NoRead /\ stdErrRet = <<>>
  /\ delivered = <<>> /\ errSeen = <<>> /\ nStarts = 1
  /\ cur = NoCur
  /\ requests = <<>> /\ answered = 0 /\ call = NoCall /\ reply = NoReply

SpecZeroFrame == InitZeroFrame /\ [][NextDemux]_vars

\* C14: once the header of a frame that declares length zero is accepted,
\* bytesRemaining is zero and no byte is taken as payload of that frame; what
\* Read returns to its caller or appends to the error buffer is payload of
\* output or error frames; and every header accepted is the header of a frame.
ZeroLengthFrameExhausted ==
  /\ (TrueHeader /\ cur.declared = 0) => (bytesRemaining = 0 /\ cur.got = <<>>)
  /\ \A j \in 1..Len(delivered) : delivered[j].k = "o"
  /\ \A j \in 1..Len(stdErrBuf) : stdErrBuf[j].k = "e"
  /\ cur.hdr # <<>> => TrueHeader

\* ---- claims about the two threads (checked under SpecThreads) ----------------

\* C15: the reader is never inside the error buffer's Write while the caller's
\* thread is inside the Reset of a Call or, after a Call, inside the Bytes of
\* StdError.
NoConcurrentBufferAccess ==
  readPc = "write"
    => ~(callPc = "reset" \/ (callPc = "stderr" /\ call.err # "none"))

\* ---- more claims about the lifecycle (checked under SpecLifecycle) ------------

\* The number of collaborator calls a Start makes when its first failing step
\* is step (a malformed endpoint fails the attach before it dials).
StepIndex(step) ==
  CASE step = "newclient" -> 1 [] step = "create" -> 2 [] step = "start" -> 3
    [] step = "parse" -> 3 [] step = "dial" -> 4 [] step = "upgrade" -> 5
    [] OTHER -> 6

\* C16: the calls of a Start are, in this order and each at most once, the
\* runtime client, createContainer, startContainer of the container just
\* created, the dial and the upgrade request of the attach for that same
\* container with stdin, stdout, stderr and stream, and the installation; no
\* call follows a step that returned an error, and the installation is made
\* only when Start returns no error.
StartCallsInOrder ==
  lastOp.op = "Start"
    => LET cs == lastOp.calls
       IN /\ IsPrefix(Names(cs),
                      <<"newclient", "create", "start", "dial", "upgrade", "install">>)
          /\ Len(cs) <= StepIndex(lastOp.ans.fail)
          /\ Len(cs) >= 3 => (cs[3] = CallRec("start", nextId - 1, "hostconfig")
                               /\ ID = nextId - 1)
          /\ Len(cs) >= 5 => cs[5] = CallRec("upgrade", cs[3].id,
                                              "stdin,stdout,stderr,stream")
          /\ Len(cs) = 6 <=> lastOp.ret = "nil"
          /\ Len(cs) = 6 => (cs[6].id = rpcClient /\ rpcClient = clientConn)

\* C16 witness: a second Start ran every step: it created, started and
\* attached to container 2 and installed the pipes and the RPC handle.
SecondStartInstalledSeen ==
  /\ lastOp.op = "Start" /\ lastOp.ret = "nil" /\ Len(lastOp.calls) = 6
  /\ ID = 2 /\ lastOp.calls[3].id = 2 /\ lastOp.calls[5].id = 2 /\ rpcClient = 2

\* ---- more claims about the demultiplexer (checked under SpecDemux) ------------

\* C17: when the first frame on the connection carries a tag that is not
\* STDIN, STDOUT or STDERR, a Read that returns returns no bytes and a framing
\* error (the header did not come as 8 bytes, or the tag is unsupported), and
\* nothing reaches the RPC codec or the error buffer.
UnknownTagFailsRead ==
  (Len(sent) >= 1 /\ sent[1].tag \notin {STDIN, STDOUT, STDERR} /\ rd.phase # "none")
    => /\ rd.n = 0 /\ rd.err \in {"framing", "unsupported"}
       /\ delivered = <<>> /\ stdErrBuf = <<>>

\* ---- more claims about Calls against the plugin (checked under SpecRpc) -------

\* The reader is waiting in a raw read on a connection that has nothing to
\* give and has not failed.
ReaderBlocked == readPc \in {"idle", "payload"} /\ wire = <<>> /\ ~ConnErr

\* C18: a Call in flight can return (the reader has its response, or has
\* stopped on an error) once the plugin has written the whole response to its
\* request and the reader has read all that was written; and while the
\* connection fails its reads, a Call in flight can return or the reader has a
\* Read to fail.
CallReturnsOnceAnsweredOrBroken ==
  callPc = "inflight"
    => /\ (call.k > 0 /\ answered >= call.k /\ ReaderBlocked)
            => (replyReady \/ readPc = "dead")
       /\ ConnErr
            => (replyReady \/ readPc = "dead"
                  \/ ENABLED (\E n \in BufSizes : ReadHeader(n) \/ ReadPayload(n)))

\* The calls of the last Start or Close that close an RPC handle.
RpcCloses == {j \in 1..Len(lastOp.calls) : lastOp.calls[j].c = "rpcclose"}

\* C19: the Client holds an RPC handle exactly when its last Start or Close is
\* a Start that returned no error (none after NewClient, after a failed Start
\* and after any Close, whatever closing the handle returned); a Close closes
\* the handle it found at most once, and a Close that found none closes none.
HandleExactlyWhenActive ==
  /\ rpcClient # 0 <=> (lastOp.op = "Start" /\ lastOp.ret = "nil")
  /\ lastOp.op = "Close"
       => /\ Cardinality(RpcCloses) = (IF lastOp.had # 0 THEN 1 ELSE 0)
          /\ \A j \in RpcCloses : lastOp.calls[j].id = lastOp.had

\* C19 witness: after a Close whose handle close returned an error, a second
\* Start made the Client Active again with a new handle.
ActiveAgainAfterFailedCloseSeen ==
  /\ lastOp.op = "Start" /\ lastOp.ret = "nil" /\ rpcClient = 2
  /\ prevOp.op = "Close" /\ prevOp.ret = "err_close" /\ prevOp.had = 1

\* C20: when a Close has returned, no connection that a Start dialled is open.
NoConnectionOpenAfterClose ==
  lastOp.op = "Close" => open = {}

====
